---- MODULE Spec2Model ----
(***************************************************************************)
(* himark: the two attribute macros of src/src/lib.rs.                     *)
(*                                                                         *)
(*   marker(_, input)   parses the item as a trait and re-emits it when    *)
(*                      it has no associated items, else a compile error.  *)
(*   mark(args, input)  parses the item as a derive input, the arguments   *)
(*                      as a list of metas, and emits the item followed    *)
(*                      by one empty impl block per collected trait path.  *)
(*                                                                         *)
(* Declarations are modelled as syntax trees (what syn parses), the        *)
(* output as the sequence of items the emitted token stream parses to.     *)
(* The macros hold no static or shared state: each invocation is the       *)
(* application of marker or mark to its own two arguments.                 *)
(***************************************************************************)
EXTENDS Naturals, Sequences, FiniteSets

\* macro      the attribute macro invoked: "marker" or "mark"
\* attr       the arguments of the attribute (args)
\* item       the annotated item (input)
\* out        the items of the returned token stream
\* pc         "call" before the macro has run, "done" after
VARIABLES macro, attr, item, out, pc

vars == <<macro, attr, item, out, pc>>

----------------------------------------------------------------------------
(* Bounds of the explored inputs.                                          *)

MaxArgs == 3
MaxParams == 3
MaxWhere == 1
MaxSupers == 2
MaxItems == 2

SeqsUpTo(S, n) == UNION {[1..k -> S] : k \in 0..n}

----------------------------------------------------------------------------
(* Syntax trees.                                                           *)

\* One generic parameter: a lifetime, a type parameter (with inline bounds
\* and an optional default) or a const parameter (with its type and an
\* optional default).
Param(kind, ident, bounds, ty, default) ==
    [kind |-> kind, ident |-> ident, bounds |-> bounds, ty |-> ty,
     default |-> default]

GenericParams ==
    { Param("lifetime", "'a", <<>>, "", ""),
      Param("type", "T", <<>>, "", ""),
      Param("type", "T", <<"Default">>, "", ""),
      Param("type", "T", <<>>, "", "i32"),
      Param("const", "N", <<>>, "usize", "") }

DistinctIdents(g) ==
    \A i, j \in 1..Len(g) : i # j => g[i].ident # g[j].ident

GenericsLists == {g \in SeqsUpTo(GenericParams, MaxParams) : DistinctIdents(g)}

WherePredicates == {"T: Clone", "[T; N]: Sized"}

WhereClauses == SeqsUpTo(WherePredicates, MaxWhere)

\* Super traits a trait declaration may name.
SuperTraits == {"V", "Send", "Display"}

\* The kinds of syn::TraitItem.
TraitItemKinds == {"Fn", "Type", "Const", "Macro"}

\* An item as the compiler hands it to an attribute macro.
Item(kind, ident, generics, supertraits, where_clause, items, data) ==
    [kind |-> kind, ident |-> ident, generics |-> generics,
     supertraits |-> supertraits, where_clause |-> where_clause,
     items |-> items, data |-> data]

TypeKinds == {"struct", "enum", "union"}

TypeDecls ==
    { Item(k, "Foo", g, <<>>, w, <<>>, "fields") :
        k \in TypeKinds, g \in GenericsLists, w \in WhereClauses }

TraitDecls ==
    { Item("trait", "Array", g, s, <<>>, i, "") :
        g \in GenericsLists,
        s \in SeqsUpTo(SuperTraits, MaxSupers),
        i \in SeqsUpTo(TraitItemKinds, MaxItems) }

FnItem == Item("fn", "main", <<>>, <<>>, <<>>, <<>>, "block")

\* One argument of the attribute: a bare path, path = value, or path(...).
Meta(form, path) == [form |-> form, path |-> path]

TraitPaths == {"Array", "m::V"}

MetaForms == {"Path", "NameValue", "List"}

Metas == {Meta(f, p) : f \in MetaForms, p \in TraitPaths}

ArgLists == SeqsUpTo(Metas, MaxArgs)

----------------------------------------------------------------------------
(* Output items.                                                           *)

\* A diagnostic: its message (the quoting marks syn puts around tokens are
\* left out) and the place it is anchored at.
Error(msg, span) == [msg |-> msg, span |-> span]

NoError == Error("", <<"", 0, "">>)

CompileError(err) == <<"compile_error", err>>

Emitted(decl) == <<"item", decl>>

----------------------------------------------------------------------------
(* Printing a syntax tree back to tokens.                                  *)

IsLifetime(p) == p.kind = "lifetime"

NotLifetime(p) == p.kind # "lifetime"

\* Generics as printed with a declaration: the lifetime parameters come
\* out first, then the type and const parameters, each in declared order.
GenericsToTokens(generics) ==
    SelectSeq(generics, IsLifetime) \o SelectSeq(generics, NotLifetime)

\* quote! { #parsed_input } and quote! { #input_trait }: the declaration
\* printed from its tree.
ItemToTokens(decl) ==
    [decl EXCEPT !.generics = GenericsToTokens(@)]

\* Faulty variant: the impl header is printed from the bare parameter names.
ImplGenericsBare(generics) ==
    [k \in 1..Len(generics) |->
        Param(GenericsToTokens(generics)[k].kind,
              GenericsToTokens(generics)[k].ident, <<>>, "", "")]

\* split_for_impl().0: the parameters for the impl header, lifetimes
\* first, bounds (and the type of a const parameter) kept, defaults left off.
ImplGenerics(generics) ==
    [k \in 1..Len(generics) |->
        [GenericsToTokens(generics)[k] EXCEPT !.default = ""]]

\* split_for_impl().1: the parameters as used in the target, names only.
TypeGenerics(generics) ==
    [k \in 1..Len(generics) |-> GenericsToTokens(generics)[k].ident]

\* split_for_impl().2: the where clause, as declared.
WhereClause(decl) == decl.where_clause

----------------------------------------------------------------------------
(* Parsing.                                                                *)

Parsed(ok, value, error) == [ok |-> ok, value |-> value, error |-> error]

\* parse_macro_input!(input as ItemTrait)
ParseItemTrait(input) ==
    IF input.kind = "trait"
    THEN Parsed(TRUE, input, NoError)
    ELSE Parsed(FALSE, input, Error("expected trait", <<"input", 0, "keyword">>))

\* Faulty variant: every item parses as a derive input.
ParseAnyItem(input) == Parsed(TRUE, input, NoError)

\* parse_macro_input!(input as syn::DeriveInput)
ParseDeriveInput(input) ==
    IF input.kind \in {"struct", "enum", "union"}
    THEN Parsed(TRUE, input, NoError)
    ELSE Parsed(FALSE, input,
                Error("expected one of: struct, enum, union",
                      <<"input", 0, "keyword">>))

\* The argument parser: metas are read left to right. The closure asks
\* meta.value(): with an equals sign after the path it answers Ok and the
\* closure fails with "expected trait name"; without one the path is
\* pushed. What follows a pushed path must be a comma or the end, so the
\* parenthesised group of a list meta stops the parse there, with the
\* message that a comma was expected.
RECURSIVE ParseNestedMeta(_, _, _)
ParseNestedMeta(args, i, trait_names) ==
    IF i > Len(args)
    THEN Parsed(TRUE, trait_names, NoError)
    ELSE IF args[i].form = "NameValue"
    THEN Parsed(FALSE, trait_names,
                Error("expected trait name", <<"args", i, "meta">>))
    ELSE IF args[i].form = "List"
    THEN Parsed(FALSE, Append(trait_names, args[i].path),
                Error("expected ,", <<"args", i, "group">>))
    ELSE ParseNestedMeta(args, i + 1, Append(trait_names, args[i].path))

\* parse_macro_input!(args with parser)
ParseArgs(args) == ParseNestedMeta(args, 1, <<>>)

----------------------------------------------------------------------------
(* The macros.                                                             *)

MarkerMessage == "The #[marker] attribute can only be applied to empty traits"

\* Faulty variant: only methods make a trait a non-marker.
markerMethodsOnly(args, input) ==
    IF ~ParseItemTrait(input).ok
    THEN <<CompileError(ParseItemTrait(input).error)>>
    ELSE IF \E k \in 1..Len(input.items) : input.items[k] = "Fn"
    THEN <<CompileError(Error(MarkerMessage, <<"input", 0, "all">>))>>
    ELSE <<Emitted(ItemToTokens(input))>>

\* Faulty variant: an accepted trait is dropped from the output.
markerDropsTrait(args, input) ==
    IF ~ParseItemTrait(input).ok
    THEN <<CompileError(ParseItemTrait(input).error)>>
    ELSE IF input.items # <<>>
    THEN <<CompileError(Error(MarkerMessage, <<"input", 0, "all">>))>>
    ELSE <<>>

\* #[marker]: the arguments of the attribute are ignored.
marker(args, input) ==
    IF ~ParseItemTrait(input).ok
    THEN <<CompileError(ParseItemTrait(input).error)>>
    ELSE IF input.items # <<>>
    THEN <<CompileError(Error(MarkerMessage, <<"input", 0, "all">>))>>
    ELSE <<Emitted(ItemToTokens(input))>>

\* One impl block:
\*   impl #impl_generics #trait_name for #ident #ty_generics #where_clause {}
ImplBlock(trait_name, parsed_input) ==
    <<"impl",
      [impl_generics |-> ImplGenerics(parsed_input.generics),
       trait_ |-> trait_name,
       ident |-> parsed_input.ident,
       ty_generics |-> TypeGenerics(parsed_input.generics),
       where_clause |-> WhereClause(parsed_input),
       body |-> <<>>]>>

\* Faulty variant: a trait path already seen is skipped.
RECURSIVE implsDedup(_, _)
implsDedup(trait_names, parsed_input) ==
    IF trait_names = <<>> THEN <<>>
    ELSE LET n == Len(trait_names)
             front == implsDedup(SubSeq(trait_names, 1, n - 1), parsed_input)
         IN  IF \E k \in 1..(n - 1) : trait_names[k] = trait_names[n]
             THEN front
             ELSE Append(front, ImplBlock(trait_names[n], parsed_input))

\* Faulty variant: the blocks come out in reverse argument order.
implsReversed(trait_names, parsed_input) ==
    [k \in 1..Len(trait_names) |->
        ImplBlock(trait_names[Len(trait_names) + 1 - k], parsed_input)]

\* trait_names.iter().map(...): one block per collected path, in order.
impls(trait_names, parsed_input) ==
    [k \in 1..Len(trait_names) |-> ImplBlock(trait_names[k], parsed_input)]

\* #[mark(...)]: the item is parsed first, then the arguments; either
\* failure returns the compile error alone. The qualifiers collected from
\* the attributes of the item take no part in the output.
mark(args, input) ==
    IF ~ParseDeriveInput(input).ok
    THEN <<CompileError(ParseDeriveInput(input).error)>>
    ELSE IF ~ParseArgs(args).ok
    THEN <<CompileError(ParseArgs(args).error)>>
    ELSE <<Emitted(ItemToTokens(input))>>
         \o impls(ParseArgs(args).value, input)

----------------------------------------------------------------------------
(* Single invocations: the compiler hands one attribute and one item to    *)
(* one of the macros, which returns its output.                            *)

MarkerInputs == TraitDecls \cup {d \in TypeDecls : d.generics = <<>>} \cup {FnItem}

MarkInputs ==
    TypeDecls
    \cup {d \in TraitDecls : d.generics = <<>> /\ d.supertraits = <<>>}
    \cup {FnItem}

MarkerAttrs == {<<>>, <<Meta("Path", "Array")>>}

Init ==
    /\ pc = "call"
    /\ \/ macro = "marker" /\ attr \in MarkerAttrs /\ item \in MarkerInputs
       \/ macro = "mark" /\ attr \in ArgLists /\ item \in MarkInputs
    /\ out = <<>>

MarkerCall ==
    /\ pc = "call"
    /\ macro = "marker"
    /\ out' = marker(attr, item)
    /\ pc' = "done"
    /\ UNCHANGED <<macro, attr, item>>

MarkCall ==
    /\ pc = "call"
    /\ macro = "mark"
    /\ out' = mark(attr, item)
    /\ pc' = "done"
    /\ UNCHANGED <<macro, attr, item>>

Next == MarkerCall \/ MarkCall

Spec == Init /\ [][Next]_vars

----------------------------------------------------------------------------
(* Vocabulary of the properties.                                           *)

Done(m) == pc = "done" /\ macro = m

StructOrEnum(d) == d.kind \in {"struct", "enum"}

AllPaths(args) == \A k \in 1..Len(args) : args[k].form = "Path"

\* The lifetime parameters of g lead its type and const parameters.
LifetimesLead(g) ==
    \A i, j \in 1..Len(g) :
        (i < j /\ g[j].kind = "lifetime") => g[i].kind = "lifetime"

\* g with its lifetime parameters moved to the front, nothing else moved.
Reordered(g) ==
    SelectSeq(g, LAMBDA p : p.kind = "lifetime")
    \o SelectSeq(g, LAMBDA p : p.kind # "lifetime")

\* Header h declares the parameters g, in the order of g, bounds included.
HeaderDeclares(h, g) ==
    /\ Len(h) = Len(g)
    /\ \A k \in 1..Len(g) :
        /\ h[k].kind = g[k].kind
        /\ h[k].ident = g[k].ident
        /\ h[k].bounds = g[k].bounds
        /\ h[k].ty = g[k].ty

\* The bare names of g, in the order of g.
BareNames(g) == [k \in 1..Len(g) |-> g[k].ident]

\* Output o is one impl block per argument, in argument order, after a
\* first item.
BlocksFollow(o, args) ==
    /\ Len(o) = Len(args) + 1
    /\ o[1][1] = "item"
    /\ \A k \in 1..Len(args) :
        o[k + 1][1] = "impl" /\ o[k + 1][2].trait_ = args[k].path

----------------------------------------------------------------------------
(* C1: count law.                                                          *)

\* C1 as stated: for a struct or enum D and a well-formed list L of N trait
\* paths, mark(L, D) is N+1 items: D unchanged, then one impl block per
\* entry of L, in the order of L.
C1_CountLaw_AsStated ==
    (Done("mark") /\ StructOrEnum(item) /\ AllPaths(attr)) =>
        /\ BlocksFollow(out, attr)
        /\ out[1][2] = item

\* C1 as amended: the N+1 items are D with its lifetime parameters moved
\* ahead of its type and const parameters (D itself when they already
\* lead), then one impl block per entry of L, in the order of L.
C1_CountLaw ==
    (Done("mark") /\ StructOrEnum(item) /\ AllPaths(attr)) =>
        /\ BlocksFollow(out, attr)
        /\ out[1][2] = [item EXCEPT !.generics = Reordered(item.generics)]
        /\ LifetimesLead(item.generics) => out[1][2] = item

C1_Witness ==
    /\ Done("mark") /\ StructOrEnum(item) /\ AllPaths(attr)
    /\ Len(attr) = 2 /\ attr[1] # attr[2]
    /\ ~LifetimesLead(item.generics)
    /\ Len(out) = 3

----------------------------------------------------------------------------
(* C2: generics fidelity.                                                  *)

\* C2 as stated: every impl block declares the parameters of G in the order
\* of G with their inline bounds, targets the name of D applied to the bare
\* parameters of G in the same order, carries exactly W and has an empty
\* body.
C2_Generics_AsStated ==
    (Done("mark") /\ StructOrEnum(item) /\ AllPaths(attr)) =>
        \A k \in 2..Len(out) :
            /\ out[k][1] = "impl"
            /\ HeaderDeclares(out[k][2].impl_generics, item.generics)
            /\ out[k][2].ident = item.ident
            /\ out[k][2].ty_generics = BareNames(item.generics)
            /\ out[k][2].where_clause = item.where_clause
            /\ out[k][2].body = <<>>

\* C2 as amended: the same, with the parameters of G taken lifetimes first
\* (the order of G whenever its lifetimes already lead) both in the header
\* and in the target.
C2_Generics ==
    (Done("mark") /\ StructOrEnum(item) /\ AllPaths(attr)) =>
        \A k \in 2..Len(out) :
            /\ out[k][1] = "impl"
            /\ HeaderDeclares(out[k][2].impl_generics, Reordered(item.generics))
            /\ out[k][2].ident = item.ident
            /\ out[k][2].ty_generics = BareNames(Reordered(item.generics))
            /\ out[k][2].where_clause = item.where_clause
            /\ out[k][2].body = <<>>

C2_Witness ==
    /\ Done("mark") /\ StructOrEnum(item) /\ AllPaths(attr)
    /\ Len(out) >= 2 /\ out[2][1] = "impl"
    /\ ~LifetimesLead(item.generics)
    /\ \E k \in 1..Len(item.generics) : item.generics[k].bounds # <<>>
    /\ item.where_clause # <<>>

----------------------------------------------------------------------------
(* C3: pass-through of empty traits.                                       *)

\* C3 as stated: for a trait T with no associated items, whatever its super
\* traits, marker succeeds with exactly T, and validating that output
\* gives it again.
C3_PassThrough_AsStated ==
    (Done("marker") /\ item.kind = "trait" /\ item.items = <<>>) =>
        /\ Len(out) = 1
        /\ out[1][1] = "item"
        /\ out[1][2] = item
        /\ marker(attr, out[1][2]) = out

\* C3 as amended: marker succeeds with T, its lifetime parameters moved
\* ahead of its type and const parameters (T itself when they already
\* lead), and validating that output gives it again.
C3_PassThrough ==
    (Done("marker") /\ item.kind = "trait" /\ item.items = <<>>) =>
        /\ Len(out) = 1
        /\ out[1][1] = "item"
        /\ out[1][2] = [item EXCEPT !.generics = Reordered(item.generics)]
        /\ LifetimesLead(item.generics) => out[1][2] = item
        /\ marker(attr, out[1][2]) = out

C3_Witness ==
    /\ Done("marker") /\ item.kind = "trait" /\ item.items = <<>>
    /\ item.supertraits # <<>>
    /\ ~LifetimesLead(item.generics)
    /\ Len(out) = 1 /\ out[1][1] = "item"

----------------------------------------------------------------------------
(* C4: rejection of non-empty traits.                                      *)

\* C4: for a trait with at least one associated item, of whatever kinds and
\* however many, the output of marker is the fixed diagnostic anchored at
\* the whole trait declaration, and nothing else.
C4_Rejection ==
    (Done("marker") /\ item.kind = "trait" /\ item.items # <<>>) =>
        /\ Len(out) = 1
        /\ out[1][1] = "compile_error"
        /\ out[1][2].msg =
             "The #[marker] attribute can only be applied to empty traits"
        /\ out[1][2].span = <<"input", 0, "all">>

C4_Witness ==
    /\ Done("marker") /\ item.kind = "trait"
    /\ item.items = <<"Type", "Const">>
    /\ Len(out) = 1 /\ out[1][1] = "compile_error"

----------------------------------------------------------------------------
(* C5: a name = value argument anywhere in the list.                       *)

\* C5 as stated: for a struct or enum and a list with a name = value entry
\* at any position, mark fails with the malformed-argument diagnostic
\* ("expected trait name") and emits nothing else.
C5_MalformedAnywhere_AsStated ==
    (/\ Done("mark") /\ StructOrEnum(item)
     /\ \E k \in 1..Len(attr) : attr[k].form = "NameValue") =>
        /\ Len(out) = 1
        /\ out[1][1] = "compile_error"
        /\ out[1][2].msg = "expected trait name"

----------------------------------------------------------------------------
(* C6: duplicate tolerance.                                                *)

\* C6: for a struct or enum and a well-formed list naming one trait path at
\* two or more positions, mark succeeds with one impl block per position,
\* the blocks of equal paths being identical.
C6_Duplicates ==
    (/\ Done("mark") /\ StructOrEnum(item) /\ AllPaths(attr)
     /\ \E i, j \in 1..Len(attr) : i # j /\ attr[i] = attr[j]) =>
        /\ BlocksFollow(out, attr)
        /\ \A i, j \in 1..Len(attr) :
            attr[i].path = attr[j].path => out[i + 1] = out[j + 1]

C6_Witness ==
    /\ Done("mark") /\ StructOrEnum(item)
    /\ Len(attr) >= 2 /\ AllPaths(attr) /\ attr[1] = attr[2]
    /\ item.generics # <<>>
    /\ Len(out) = Len(attr) + 1 /\ out[2] = out[3]

----------------------------------------------------------------------------
(* C7: super traits of a marker.                                           *)

\* Of the super traits in the model, V is a marker trait and Send an auto
\* trait; Display is neither.
MarkerOrAutoTraits == {"V", "Send"}

\* C7 as stated: marker accepts a trait only if it has no associated items
\* and every super trait is a marker or an auto trait.
C7_SuperTraits_AsStated ==
    (Done("marker") /\ item.kind = "trait" /\ out[1][1] = "item") =>
        /\ item.items = <<>>
        /\ \A k \in 1..Len(item.supertraits) :
            item.supertraits[k] \in MarkerOrAutoTraits

----------------------------------------------------------------------------
(* C9: argument forms.                                                     *)

FirstMalformed(args) ==
    CHOOSE k \in 1..Len(args) :
        /\ args[k].form # "Path"
        /\ \A j \in 1..(k - 1) : args[j].form = "Path"

\* C9 as stated: the first argument that is not a bare path, name = value
\* and name(...) alike, fails the parse with "expected trait name" anchored
\* at that argument; a list of bare paths is accepted entry by entry.
C9_ArgumentForms_AsStated ==
    (Done("mark") /\ StructOrEnum(item)) =>
        IF AllPaths(attr)
        THEN BlocksFollow(out, attr)
        ELSE /\ Len(out) = 1
             /\ out[1][1] = "compile_error"
             /\ out[1][2].msg = "expected trait name"
             /\ out[1][2].span = <<"args", FirstMalformed(attr), "meta">>

----------------------------------------------------------------------------
(* C10: the annotated item.                                                *)

\* C10 as stated: applied to an item that is neither a struct nor an enum,
\* with any argument list, mark fails with the parse diagnostic alone.
C10_ItemKinds_AsStated ==
    (Done("mark") /\ ~StructOrEnum(item)) =>
        /\ Len(out) = 1
        /\ out[1][1] = "compile_error"
        /\ out[1][2].span[1] = "input"

\* C10 as amended: mark accepts a struct, an enum or a union; applied to an
\* item of any other kind, with any argument list, well formed or not, it
\* fails with the parse diagnostic alone, and a union is marked like a
\* struct.
C10_ItemKinds ==
    /\ (Done("mark") /\ item.kind \notin {"struct", "enum", "union"}) =>
        /\ Len(out) = 1
        /\ out[1][1] = "compile_error"
        /\ out[1][2].span[1] = "input"
    /\ (Done("mark") /\ item.kind = "union" /\ AllPaths(attr)) =>
        BlocksFollow(out, attr)

C10_Witness ==
    /\ Done("mark") /\ item.kind = "trait"
    /\ attr # <<>> /\ attr[1].form = "NameValue"
    /\ Len(out) = 1 /\ out[1][1] = "compile_error"
    /\ out[1][2].span[1] = "input"

====
